---- MODULE Spec2Model ----
(***************************************************************************)
(* AIGCAP coverage engine (tools/ai_coverage.py): header extraction,       *)
(* header parsing, AI-line estimation and the directory scan that folds    *)
(* the per-file results into a ProjectReport; and the gating hook         *)
(* (dot-claude/hooks/check_aigcap.py) run on Write / Edit payloads.        *)
(*                                                                         *)
(* Text is modelled structurally.  A raw line of a file is a record        *)
(*   [pfx, body, sfx]                                                      *)
(* where pfx / sfx are the comment decoration written around the line and  *)
(* body says what the rest of the line contains (see the Body section).    *)
(* A file's content is the sequence of its raw lines, i.e. the value of    *)
(* content.split("\n").                                                    *)
(***************************************************************************)
EXTENDS Integers, Sequences, FiniteSets, TLC

VARIABLES
    exclude_dirs,   \* scan_directory's exclude_dirs argument
    pc,             \* position of scan_directory / of the function under call
    pending,        \* os.walk: directories still to be yielded (paths)
    root,           \* os.walk: the directory being listed (path below the scan root)
    files,          \* the filenames of `root` the for-loop has not reached yet
    cur,            \* the file whose loop body is executing
    report,         \* the ProjectReport being built
    visited,        \* history: paths of the files the for-loop body ran for
    pruned,         \* history: directory paths removed from dirs[:]
    budget,         \* how many more files / directories the disk may still hold
    args,           \* arguments of the pure function under call
    ret,            \* its return value
    disk,           \* what os.walk and open() have returned so far, by path
    first           \* the report an earlier call of scan_directory returned

vars == <<exclude_dirs, pc, pending, root, files, cur, report, visited, pruned,
          budget, args, ret, disk, first>>

\* the variables of the scan other than pc
scanRest == <<exclude_dirs, pending, root, files, cur, report, visited, pruned, budget,
             disk, first>>

----------------------------------------------------------------------------
(* Bounds *)

MaxTotal   == 3   \* estimate_ai_lines: total_lines ranges over 0..MaxTotal (plus 100, 200)
MaxBound   == 3   \* line bounds of a Partial entry are 0, 1 or MaxBound
MaxEntries == 2   \* entries over the three lists of one estimate_ai_lines call
MaxLen     == 5   \* lines of a file handed to extract_header_block
MaxFiles   == 2   \* files on the scanned disk
MaxDirs    == 2   \* directories below the scan root
MaxDepth   == 2   \* nesting of directories below the scan root
MaxHookLines == 3 \* lines of the content a hook payload writes, or of a file's tail
MaxHeader  == 3   \* lines of a header handed to parse_header

----------------------------------------------------------------------------
(* Optional values *)

None == -1                  \* Optional[int]: \d+ never yields a negative number
TYPE_NONE == "None"         \* result["type"] = None
NoHeader == <<>>            \* Optional[str] None; a header h is <<h>>
Some(h) == <<h>>

----------------------------------------------------------------------------
(* Language table *)

Lang(name, family, prefix) == [name |-> name, family |-> family, prefix |-> prefix]

LANG_MAP ==
    ".rs"    :> Lang("Rust", "block", " *")       @@ ".c"     :> Lang("C", "block", " *")
 @@ ".h"     :> Lang("C Header", "block", " *")   @@ ".cpp"   :> Lang("C++", "block", " *")
 @@ ".hpp"   :> Lang("C++ Header", "block", " *") @@ ".java"  :> Lang("Java", "block", " *")
 @@ ".js"    :> Lang("JavaScript", "block", " *") @@ ".jsx"   :> Lang("JSX", "block", " *")
 @@ ".ts"    :> Lang("TypeScript", "block", " *") @@ ".tsx"   :> Lang("TSX", "block", " *")
 @@ ".go"    :> Lang("Go", "block", " *")         @@ ".swift" :> Lang("Swift", "block", " *")
 @@ ".kt"    :> Lang("Kotlin", "block", " *")     @@ ".scala" :> Lang("Scala", "block", " *")
 @@ ".cs"    :> Lang("C#", "block", " *")         @@ ".css"   :> Lang("CSS", "block", " *")
 @@ ".scss"  :> Lang("SCSS", "block", " *")
 @@ ".py"    :> Lang("Python", "hash", "#")       @@ ".rb"    :> Lang("Ruby", "hash", "#")
 @@ ".sh"    :> Lang("Shell", "hash", "#")        @@ ".bash"  :> Lang("Bash", "hash", "#")
 @@ ".yaml"  :> Lang("YAML", "hash", "#")         @@ ".yml"   :> Lang("YAML", "hash", "#")
 @@ ".toml"  :> Lang("TOML", "hash", "#")         @@ ".r"     :> Lang("R", "hash", "#")
 @@ ".sql"   :> Lang("SQL", "dash", "--")         @@ ".lua"   :> Lang("Lua", "dash", "--")
 @@ ".hs"    :> Lang("Haskell", "dash", "--")
 @@ ".html"  :> Lang("HTML", "html", "")          @@ ".xml"   :> Lang("XML", "html", "")
 @@ ".svg"   :> Lang("SVG", "html", "")           @@ ".vue"   :> Lang("Vue", "html", "")

----------------------------------------------------------------------------
(* Line bodies.  kind is one of                                            *)
(*   "blank"    nothing but white space                                    *)
(*   "sep"      contains "========"                                        *)
(*   "banner"   contains BANNER                                            *)
(*   "sepbanner" contains both                                             *)
(*   "type"     "TYPE: <phrase>", word in WHOLE / ABOVE / DOWN             *)
(*   "section"  begins with the section word `word`                        *)
(*   "whole"    "- WHOLE CODE IN THE <word> <name>"                        *)
(*   "partial"  "- <start>~<end> LINE CODE IN THE <word> <name>"           *)
(*   "lib"      "- <name>: <reason>"                                       *)
(*   "dash"     begins with "-" and matches no entry pattern               *)
(*   "reviewed" "REVIEWED-BY-HUMAN: <word>", word YES or NO                  *)
(*   "reviewed_item"  "- REVIEWED-BY-HUMAN: <word>"                          *)
(*   "text"     anything else (prose, code)                                *)

\* a number as it is written on a line: its decimal digits
RECURSIVE Digits(_)
Digits(n) == IF n < 10 THEN <<n>> ELSE Append(Digits(n \div 10), n % 10)

\* int(m.group(k)) of a run of digits
RECURSIVE IntOf(_)
IntOf(ds) ==
    IF ds = <<>> THEN 0
    ELSE 10 * IntOf(SubSeq(ds, 1, Len(ds) - 1)) + ds[Len(ds)]

Body(kind, word, name, s, e) ==
    [kind |-> kind, word |-> word, name |-> name, start |-> Digits(s), end |-> Digits(e)]

Blank        == Body("blank", "", "", 0, 0)
Sep          == Body("sep", "", "", 0, 0)
Banner       == Body("banner", "", "", 0, 0)
SepBanner    == Body("sepbanner", "", "", 0, 0)
TypeLine(w)  == Body("type", w, "", 0, 0)
Section(w)   == Body("section", w, "", 0, 0)
WholeLine(w, n)        == Body("whole", w, n, 0, 0)
PartialLine(w, n, s, e) == Body("partial", w, n, s, e)
LibLine(n)   == Body("lib", "", n, 0, 0)
DashLine     == Body("dash", "", "", 0, 0)
ReviewedLine(w) == Body("reviewed", w, "", 0, 0)
ReviewedItem(w) == Body("reviewed_item", w, "", 0, 0)
Text         == Body("text", "", "", 0, 0)

Raw(pfx, body, sfx) == [pfx |-> pfx, body |-> body, sfx |-> sfx]

\* "========" in cleaned
HasSep(cl) == cl.body.kind \in {"sep", "sepbanner"}

\* BANNER in cleaned
HasBanner(cl) == cl.body.kind \in {"banner", "sepbanner"}

----------------------------------------------------------------------------
(* strip_comment_prefix: the cleaned line keeps the decoration the family's *)
(* patterns do not remove as `lead` (in front) and `trail` (behind).        *)
(*   block  ^/\*+\s?  \*+/$  ^\*+\s?      hash  ^#+\s?                      *)
(*   dash   ^--+\s?                        html  ^<!--\s?  \s?-->$           *)

Cleaned(lead, body, trail) == [lead |-> lead, body |-> body, trail |-> trail]

strip_comment_prefix(line, lang_info) ==
    LET family == lang_info.family
        lead  == IF family = "block" /\ line.pfx \in {"/*", "*"} THEN ""
                 ELSE IF family = "hash" /\ line.pfx = "#" THEN ""
                 ELSE IF family = "dash" /\ line.pfx = "--" THEN ""
                 ELSE IF family = "html" /\ line.pfx = "<!--" THEN ""
                 ELSE line.pfx
        trail == IF family = "block" /\ line.sfx = "*/" THEN ""
                 ELSE IF family = "html" /\ line.sfx = "-->" THEN ""
                 ELSE line.sfx
    IN  Cleaned(lead, line.body, trail)

----------------------------------------------------------------------------
(* extract_header_block *)

\* BANNER not in content
BannerInContent(content) == \E i \in 1..Len(content) : content[i].body.kind \in {"banner", "sepbanner"}

\* Variant: any separator met while collecting closes the header
ExtractStep_CloseOnAnySeparator(st, cleaned) ==
    IF HasSep(cleaned) /\ ~st.in_header
    THEN [st EXCEPT !.in_header = TRUE]
    ELSE IF HasBanner(cleaned)
    THEN st
    ELSE IF st.in_header
    THEN IF HasSep(cleaned)
         THEN [st EXCEPT !.closed = TRUE]
         ELSE [st EXCEPT !.header_lines = Append(@, cleaned)]
    ELSE st

\* One iteration of the for-loop; closed records that it ended in `break`.
\* (banner_count is written by the loop and never read, so it is left out.)
ExtractStep(st, cleaned) ==
    IF HasSep(cleaned) /\ ~st.in_header
    THEN [st EXCEPT !.in_header = TRUE]
    ELSE IF HasBanner(cleaned)
    THEN st
    ELSE IF st.in_header
    THEN IF HasSep(cleaned)
         THEN IF st.header_lines # <<>>
              THEN [st EXCEPT !.closed = TRUE]
              ELSE st
         ELSE [st EXCEPT !.header_lines = Append(@, cleaned)]
    ELSE st

\* Variant: the loop does not stop at the closing separator
RECURSIVE ExtractLoop_NoBreak(_, _, _, _)
ExtractLoop_NoBreak(lines, lang_info, i, st) ==
    IF i > Len(lines) THEN st
    ELSE ExtractLoop_NoBreak(lines, lang_info, i + 1,
                             ExtractStep(st, strip_comment_prefix(lines[i], lang_info)))

\* The for-loop over the lines, from line i on
RECURSIVE ExtractLoop(_, _, _, _)
ExtractLoop(lines, lang_info, i, st) ==
    IF i > Len(lines) \/ st.closed THEN st
    ELSE ExtractLoop(lines, lang_info, i + 1,
                     ExtractStep(st, strip_comment_prefix(lines[i], lang_info)))

ExtractRun(content, lang_info) ==
    ExtractLoop(content, lang_info, 1,
                [in_header |-> FALSE, header_lines |-> <<>>, closed |-> FALSE])

extract_header_block(content, lang_info) ==
    IF ~BannerInContent(content)
    THEN NoHeader
    ELSE LET st == ExtractRun(content, lang_info) IN
         IF st.header_lines # <<>> THEN Some(st.header_lines) ELSE NoHeader

----------------------------------------------------------------------------
(* parse_header *)

Entry(name, coverage, s, e) ==
    [name |-> name, coverage |-> coverage, start_line |-> s, end_line |-> e]

LibraryEntry(name, reason) == [name |-> name, reason |-> reason]

\* RE_TYPE.search(header_text): the first line holding a TYPE phrase
RECURSIVE TypeMatch(_, _)
TypeMatch(header, i) ==
    IF i > Len(header) THEN TYPE_NONE
    ELSE IF header[i].body.kind = "type"
         THEN (IF header[i].body.word = "WHOLE" THEN "WHOLE"
               ELSE IF header[i].body.word = "ABOVE" THEN "ABOVE_50"
               ELSE IF header[i].body.word = "DOWN" THEN "DOWN_50"
               ELSE TYPE_NONE)
         ELSE TypeMatch(header, i + 1)

\* line.startswith(<section word>)
SectionOf(cl) ==
    IF cl.lead # "" \/ cl.body.kind # "section" THEN "none"
    ELSE IF cl.body.word \in {"METHOD", "FUNCTION"} THEN "methods"
    ELSE IF cl.body.word \in {"STRUCT", "OBJECT"} THEN "structs"
    ELSE IF cl.body.word \in {"TRAIT", "INTERFACE"} THEN "traits"
    ELSE IF cl.body.word = "IMPORTED" THEN "libraries"
    ELSE "none"

\* line.startswith("-"): a leftover "--" decoration also begins with a dash
StartsWithDash(cl) ==
    \/ cl.lead = "--"
    \/ cl.lead = "" /\ cl.body.kind \in {"whole", "partial", "lib", "dash", "reviewed_item"}

\* RE_<KIND>_WHOLE / RE_<KIND>_PARTIAL .search(entry_text)
MatchWhole(cl, kindword)   == cl.body.kind = "whole" /\ cl.body.word = kindword
MatchPartial(cl, kindword) == cl.body.kind = "partial" /\ cl.body.word = kindword

\* RE_LIBRARY.search(line): a dash, then a token that ends in a colon
MatchLibrary(cl) ==
    \/ cl.body.kind \in {"lib", "reviewed_item"}
    \/ cl.lead = "--" /\ cl.body.kind \in {"type", "reviewed"}

\* LibraryEntry(name=m.group(1), reason=m.group(2).strip())
LibraryOf(cl) ==
    IF cl.body.kind = "lib" THEN LibraryEntry(cl.body.name, cl.trail)
    ELSE IF cl.body.kind = "type" THEN LibraryEntry("TYPE", cl.trail)
    ELSE LibraryEntry("REVIEWED-BY-HUMAN", cl.body.word)

\* Variant: a PARTIAL entry is stored without its bounds
EntriesOf_BoundsDropped(cl, kindword) ==
    IF MatchWhole(cl, kindword)
    THEN <<Entry(cl.body.name, "WHOLE", None, None)>>
    ELSE IF MatchPartial(cl, kindword)
    THEN <<Entry(cl.body.name, "PARTIAL", None, None)>>
    ELSE <<>>

EntriesOf(cl, kindword) ==
    IF MatchWhole(cl, kindword)
    THEN <<Entry(cl.body.name, "WHOLE", None, None)>>
    ELSE IF MatchPartial(cl, kindword)
    THEN <<Entry(cl.body.name, "PARTIAL", IntOf(cl.body.start), IntOf(cl.body.end))>>
    ELSE <<>>

\* Variant: a "-" line goes to the list whose pattern it matches, whatever the section
ParseLine_AnySection(st, cl) ==
    IF SectionOf(cl) # "none"
    THEN [st EXCEPT !.current_section = SectionOf(cl)]
    ELSE IF ~StartsWithDash(cl) THEN st
    ELSE [st EXCEPT !.methods = @ \o EntriesOf(cl, "METHOD"),
                    !.structs = @ \o EntriesOf(cl, "STRUCT"),
                    !.traits = @ \o EntriesOf(cl, "TRAIT")]

\* One iteration of the loop over header_text.split("\n")
ParseLine(st, cl) ==
    IF SectionOf(cl) # "none"
    THEN [st EXCEPT !.current_section = SectionOf(cl)]
    ELSE IF ~StartsWithDash(cl) THEN st
    ELSE IF st.current_section = "methods"
    THEN [st EXCEPT !.methods = @ \o EntriesOf(cl, "METHOD")]
    ELSE IF st.current_section = "structs"
    THEN [st EXCEPT !.structs = @ \o EntriesOf(cl, "STRUCT")]
    ELSE IF st.current_section = "traits"
    THEN [st EXCEPT !.traits = @ \o EntriesOf(cl, "TRAIT")]
    ELSE IF st.current_section = "libraries" /\ MatchLibrary(cl)
    THEN [st EXCEPT !.libraries = Append(@, LibraryOf(cl))]
    ELSE st

RECURSIVE ParseLoop(_, _, _)
ParseLoop(header, i, st) ==
    IF i > Len(header) THEN st
    ELSE ParseLoop(header, i + 1, ParseLine(st, header[i]))

parse_header(header_text) ==
    LET st == ParseLoop(header_text, 1,
                  [type |-> TypeMatch(header_text, 1), current_section |-> "none",
                   methods |-> <<>>, structs |-> <<>>, traits |-> <<>>, libraries |-> <<>>])
    IN  [type |-> st.type, methods |-> st.methods, structs |-> st.structs,
         traits |-> st.traits, libraries |-> st.libraries]

----------------------------------------------------------------------------
(* count_lines: the lines l with l.strip() non-empty.  The file is the one  *)
(* scan_directory has just read, so the second open() yields the same text. *)

NonEmptyRaw(line) == line.pfx # "" \/ line.sfx # "" \/ line.body.kind # "blank"

RECURSIVE count_lines(_)
count_lines(content) ==
    IF content = <<>> THEN 0
    ELSE (IF NonEmptyRaw(Head(content)) THEN 1 ELSE 0) + count_lines(Tail(content))

----------------------------------------------------------------------------
(* estimate_ai_lines *)

\* Python truth value of an Optional[int]
Truthy(x) == x # None /\ x # 0

\* partial_lines after the nested loops over [methods, structs, traits]
RECURSIVE partial_lines(_)
partial_lines(items) ==
    IF items = <<>> THEN 0
    ELSE LET item == Head(items) IN
         (IF item.coverage = "PARTIAL" /\ Truthy(item.start_line) /\ Truthy(item.end_line)
          THEN item.end_line - item.start_line + 1
          ELSE 0) + partial_lines(Tail(items))

\* Variant: every entry that adds no range counts as a whole item
RECURSIVE whole_items_AnyCoverage(_)
whole_items_AnyCoverage(items) ==
    IF items = <<>> THEN 0
    ELSE LET item == Head(items) IN
         (IF ~(item.coverage = "PARTIAL" /\ Truthy(item.start_line) /\ Truthy(item.end_line))
          THEN 1 ELSE 0) + whole_items_AnyCoverage(Tail(items))

\* whole_items after the nested loops
RECURSIVE whole_items(_)
whole_items(items) ==
    IF items = <<>> THEN 0
    ELSE LET item == Head(items) IN
         (IF ~(item.coverage = "PARTIAL" /\ Truthy(item.start_line) /\ Truthy(item.end_line))
             /\ item.coverage = "WHOLE"
          THEN 1 ELSE 0) + whole_items(Tail(items))

Min(a, b) == IF a < b THEN a ELSE b

\* int(total_lines * 0.75) and int(total_lines * 0.25): both products are exact
\* in binary floating point, and int() truncates a non-negative value downwards

\* Variant: rounds up
Int075_RoundUp(n) == (3 * n + 3) \div 4

Int075(n) == (3 * n) \div 4
Int025(n) == n \div 4

\* Variant: the refined estimate is not capped by total_lines
estimate_ai_lines_Uncapped(total_lines, type_coverage, methods, structs, traits) ==
    IF type_coverage = "WHOLE" THEN total_lines
    ELSE IF type_coverage \notin {"ABOVE_50", "DOWN_50"} THEN 0
    ELSE LET base  == IF type_coverage = "ABOVE_50" THEN Int075(total_lines)
                      ELSE Int025(total_lines)
             items == methods \o structs \o traits
         IN  IF partial_lines(items) > 0
             THEN partial_lines(items) + whole_items(items) * 20
             ELSE base

estimate_ai_lines(total_lines, type_coverage, methods, structs, traits) ==
    IF type_coverage = "WHOLE" THEN total_lines
    ELSE IF type_coverage \notin {"ABOVE_50", "DOWN_50"} THEN 0
    ELSE LET base  == IF type_coverage = "ABOVE_50" THEN Int075(total_lines)
                      ELSE Int025(total_lines)
             items == methods \o structs \o traits
         IN  IF partial_lines(items) > 0
             THEN Min(partial_lines(items) + whole_items(items) * 20, total_lines)
             ELSE base

----------------------------------------------------------------------------
(* Idle values of the variables a specification does not use *)

EmptyReport ==
    [scan_time |-> 0, total_files_scanned |-> 0, total_files_with_aigcap |-> 0,
     total_files_without_aigcap |-> 0, files |-> <<>>, files_without_header |-> <<>>,
     language_breakdown |-> [l \in {} |-> 0]]

\* filepath, ext and content before the first file
NoFile == [path |-> <<>>, ext |-> "", content |-> <<>>]

\* nothing listed or read yet
EmptyDisk == [listing |-> [p \in {} |-> 0], content |-> [p \in {} |-> 0]]

ScanIdle ==
    /\ exclude_dirs = {}
    /\ pending = <<>>
    /\ root = <<>>
    /\ files = <<>>
    /\ cur = NoFile
    /\ report = EmptyReport
    /\ visited = <<>>
    /\ pruned = {}
    /\ budget = [files |-> 0, dirs |-> 0]
    /\ disk = EmptyDisk
    /\ first = <<>>

----------------------------------------------------------------------------
(* Calls of estimate_ai_lines on bounded inputs *)

BoundValues == {0, 1, MaxBound}

EstEntries ==
    {Entry("foo", "WHOLE", None, None), Entry("foo", "PARTIAL", None, None)}
    \cup {Entry("foo", "PARTIAL", s, e) : s \in BoundValues, e \in BoundValues}

SeqsUpTo(S, n) == UNION {[1..k -> S] : k \in 0..n}

TotalLinesValues == (0..MaxTotal) \cup {100, 200}

\* every way of cutting a sequence of entries into methods, structs and traits
Cuts(items) ==
    {[methods |-> SubSeq(items, 1, i), structs |-> SubSeq(items, i + 1, j),
      traits |-> SubSeq(items, j + 1, Len(items))] :
        i \in 0..Len(items), j \in 0..Len(items)}

\* the three lists of a call that holds at most max entries
EntryLists(max) == {c \in UNION {Cuts(items) : items \in SeqsUpTo(EstEntries, max)} :
                       Len(c.methods) + Len(c.structs) + Len(c.traits) <= max}

EstArgs(max) ==
    {[total_lines |-> n, type_coverage |-> t,
      methods |-> c.methods, structs |-> c.structs, traits |-> c.traits] :
        n \in TotalLinesValues,
        t \in {"WHOLE", "ABOVE_50", "DOWN_50", "UNKNOWN"},
        c \in EntryLists(max)}

CallEstimate(a) ==
    estimate_ai_lines(a.total_lines, a.type_coverage, a.methods, a.structs, a.traits)

InitEstimate ==
    /\ ScanIdle
    /\ pc = "est_call"
    /\ args \in EstArgs(MaxEntries)
    /\ ret = None

\* The call returns
Estimate ==
    /\ pc = "est_call"
    /\ pc' = "est_done"
    /\ ret' = CallEstimate(args)
    /\ UNCHANGED <<args, scanRest>>

\* The caller appends one more entry to one of the three lists and calls again
AddEntry ==
    /\ pc = "est_done"
    /\ Len(args.methods) + Len(args.structs) + Len(args.traits) < MaxEntries
    /\ \E e \in EstEntries :
          \/ args' = [args EXCEPT !.methods = Append(@, e)]
          \/ args' = [args EXCEPT !.structs = Append(@, e)]
          \/ args' = [args EXCEPT !.traits = Append(@, e)]
    /\ ret' = CallEstimate(args')
    /\ UNCHANGED <<pc, scanRest>>

NextEstimate == Estimate \/ AddEntry

SpecEstimate == InitEstimate /\ [][NextEstimate]_vars

----------------------------------------------------------------------------
(* Claims about estimate_ai_lines *)

AllItems(a) == a.methods \o a.structs \o a.traits

\* floor(p * n / 100) for a percentage p
FloorPct(p, n) == CHOOSE k \in 0..n : 100 * k <= p * n /\ p * n < 100 * (k + 1)

\* C5: when no Partial entry contributes (partial_lines is not > 0) the estimate
\* is total_lines for WHOLE, floor(0.75 * total_lines) for ABOVE_50 and
\* floor(0.25 * total_lines) for DOWN_50.
C5_BaseEstimate ==
    (pc = "est_done" /\ ~(partial_lines(AllItems(args)) > 0)) =>
        /\ args.type_coverage = "WHOLE" => ret = args.total_lines
        /\ args.type_coverage = "ABOVE_50" => ret = FloorPct(75, args.total_lines)
        /\ args.type_coverage = "DOWN_50" => ret = FloorPct(25, args.total_lines)

C5_Witness ==
    /\ pc = "est_done"
    /\ args.type_coverage = "ABOVE_50"
    /\ args.total_lines = 200
    /\ AllItems(args) = <<Entry("foo", "WHOLE", None, None)>>
    /\ ret = 150

\* The sum of end - start + 1 over the Partial entries the estimator counts
\* (both bounds present and non-zero), and the number of Whole entries, taken
\* list by list.
RECURSIVE SumRanges(_, _)
SumRanges(list, i) ==
    IF i = 0 THEN 0
    ELSE SumRanges(list, i - 1) +
         (IF list[i].coverage = "PARTIAL" /\ list[i].start_line > 0 /\ list[i].end_line > 0
          THEN list[i].end_line - list[i].start_line + 1 ELSE 0)

PartialSum(a) ==
    SumRanges(a.methods, Len(a.methods)) + SumRanges(a.structs, Len(a.structs))
        + SumRanges(a.traits, Len(a.traits))

WholeEntryCount(a) ==
    Cardinality({i \in 1..Len(a.methods) : a.methods[i].coverage = "WHOLE"})
    + Cardinality({i \in 1..Len(a.structs) : a.structs[i].coverage = "WHOLE"})
    + Cardinality({i \in 1..Len(a.traits) : a.traits[i].coverage = "WHOLE"})

Refined(a) == Min(PartialSum(a) + WholeEntryCount(a) * 20, a.total_lines)

Inverted(e) == e.coverage = "PARTIAL" /\ e.start_line # None /\ e.end_line # None
                  /\ e.start_line > e.end_line

\* C7: appending a Partial entry with start > end to an entry list never changes
\* the estimate.
C7_InvertedEntryAddsNothing ==
    [][(pc = "est_done" /\ pc' = "est_done" /\
        \E e \in EstEntries :
            /\ Inverted(e)
            /\ \/ args' = [args EXCEPT !.methods = Append(@, e)]
               \/ args' = [args EXCEPT !.structs = Append(@, e)]
               \/ args' = [args EXCEPT !.traits = Append(@, e)])
       => ret' = ret]_vars

\* the sum of end - start + 1 over the Partial entries whose two bounds are
\* present, whatever their values
RECURSIVE SumPresentRanges(_, _)
SumPresentRanges(list, i) ==
    IF i = 0 THEN 0
    ELSE SumPresentRanges(list, i - 1) +
         (IF list[i].coverage = "PARTIAL" /\ list[i].start_line # None /\ list[i].end_line # None
          THEN list[i].end_line - list[i].start_line + 1 ELSE 0)

PresentSum(a) ==
    SumPresentRanges(a.methods, Len(a.methods)) + SumPresentRanges(a.structs, Len(a.structs))
        + SumPresentRanges(a.traits, Len(a.traits))

\* C19: the estimator's partial sum is the sum of end - start + 1 over every
\* Partial entry of the three lists whose two bounds are present, whatever their
\* integer values (an entry 0~5 contributes 6), its whole count is the number of
\* Whole entries, and for ABOVE_50 and DOWN_50 a positive sum gives the estimate
\* min(sum + 20 * whole count, total_lines).
C19_SumOverPresentBounds ==
    pc = "est_done" =>
        /\ partial_lines(AllItems(args)) = PresentSum(args)
        /\ whole_items(AllItems(args)) = WholeEntryCount(args)
        /\ (args.type_coverage \in {"ABOVE_50", "DOWN_50"} /\ PresentSum(args) > 0) =>
              ret = Min(PresentSum(args) + WholeEntryCount(args) * 20, args.total_lines)

----------------------------------------------------------------------------
(* Calls of extract_header_block on bounded inputs *)

ExtractLines ==
    {Raw("#", b, "") : b \in {Sep, Banner, SepBanner, Text, TypeLine("ABOVE")}}
    \cup {Raw("", Blank, "")}

ExtractArgs ==
    [content : SeqsUpTo(ExtractLines, MaxLen), lang_info : {LANG_MAP[".py"], LANG_MAP[".rs"]}]

InitExtract ==
    /\ ScanIdle
    /\ pc = "ext_call"
    /\ args \in ExtractArgs
    /\ ret = [value |-> NoHeader, done |-> FALSE]

\* The call returns; done tells whether the loop reached its closing separator
Extract ==
    /\ pc = "ext_call"
    /\ pc' = "ext_done"
    /\ ret' = [value |-> extract_header_block(args.content, args.lang_info),
               done |-> BannerInContent(args.content)
                           /\ ExtractRun(args.content, args.lang_info).closed]
    /\ UNCHANGED <<args, scanRest>>

NextExtract == Extract

SpecExtract == InitExtract /\ [][NextExtract]_vars

----------------------------------------------------------------------------
(* Claims about extract_header_block *)

CleanedAt(i) == strip_comment_prefix(args.content[i], args.lang_info)

\* the lines that contain the separator marker / neither marker nor banner
SepIdx     == {i \in 1..Len(args.content) : HasSep(CleanedAt(i))}
ContentIdx == {i \in 1..Len(args.content) : ~HasSep(CleanedAt(i)) /\ ~HasBanner(CleanedAt(i))}

Lowest(S) == CHOOSE i \in S : \A j \in S : i <= j

\* the content lines after the first separator
AfterOpening == {i \in ContentIdx : SepIdx # {} /\ i > Lowest(SepIdx)}

\* C3: a separator met while collecting closes the header only if a content line
\* has been collected; separators met before the first content line are discarded,
\* so the header exists and starts with the first content line after the opening
\* separator however many separators precede it.
C3_SeparatorClosesOnlyAfterContent ==
    (pc = "ext_done" /\ BannerInContent(args.content)) =>
        /\ ret.done => ret.value # NoHeader
        /\ AfterOpening # {} =>
              /\ ret.value # NoHeader
              /\ Head(ret.value[1]) = CleanedAt(Lowest(AfterOpening))

C3_Witness ==
    /\ pc = "ext_done"
    /\ args.lang_info.family = "hash"
    /\ args.content = <<Raw("#", Banner, ""), Raw("#", Sep, ""), Raw("#", Sep, ""),
                        Raw("#", TypeLine("ABOVE"), ""), Raw("#", Sep, "")>>
    /\ ret = [value |-> Some(<<Cleaned("", TypeLine("ABOVE"), "")>>), done |-> TRUE]

\* C4: None is returned for every file whose loop never reaches its closing
\* separator, and for every file in which the banner never occurs.
C4_NoHeaderUnlessDone ==
    pc = "ext_done" =>
        /\ ~BannerInContent(args.content) => ret.value = NoHeader
        /\ ~ret.done => ret.value = NoHeader

\* the separator lines that close the header: no banner on them, and a content
\* line lies between the opening separator and them
ClosingIdx ==
    {i \in SepIdx : ~HasBanner(CleanedAt(i)) /\ \E j \in AfterOpening : j < i}

\* the content lines after the opening and before the closing separator
Between == {i \in AfterOpening : ClosingIdx = {} \/ i < Lowest(ClosingIdx)}

\* the cleaned lines at the indices S, in file order
RECURSIVE LinesAt(_)
LinesAt(S) ==
    IF S = {} THEN <<>>
    ELSE <<CleanedAt(Lowest(S))>> \o LinesAt(S \ {Lowest(S)})

\* C18: the header returned is exactly, in file order, the stripped lines that
\* lie after the first separator line and before the closing separator (the
\* first separator line met after a collected line) and that contain neither
\* the banner nor the separator marker.
C18_HeaderIsTheLinesBetween ==
    (pc = "ext_done" /\ ret.value # NoHeader) => ret.value[1] = LinesAt(Between)

C18_Witness ==
    /\ pc = "ext_done"
    /\ args.lang_info.family = "hash"
    /\ args.content = <<Raw("#", Text, ""), Raw("#", SepBanner, ""),
                        Raw("#", TypeLine("ABOVE"), ""), Raw("#", Sep, ""),
                        Raw("#", Text, "")>>
    /\ ret.value = Some(<<Cleaned("", TypeLine("ABOVE"), "")>>)

----------------------------------------------------------------------------
(* The disk scan_directory walks.  Directory listings and file contents are *)
(* inputs: os.walk and open() return them when the scan asks.               *)

DirNames  == {"src", "vendor"}
DirLists  == {<<>>, <<"src">>, <<"vendor">>, <<"src", "vendor">>}

ExcludeSets == {{}, {"vendor"}, {"src", "vendor"}}

FileNames == {"main.PY", "lib.rs", "notes.txt"}
FileLists == {<<>>, <<"main.PY">>, <<"main.PY", "notes.txt">>,
              <<"notes.txt", "lib.rs">>}

\* Path(filename).suffix
Suffix(filename) ==
    CASE filename = "main.PY" -> ".PY"
      [] filename = "lib.rs" -> ".rs"
      [] filename = "notes.txt" -> ".txt"
      [] filename = "__init__.py" -> ".py"
      [] filename = "conf.yaml" -> ".yaml"
      [] OTHER -> ""

\* str.lower() on a suffix
Lower(suffix) ==
    CASE suffix = ".PY" -> ".py"
      [] suffix = ".RS" -> ".rs"
      [] OTHER -> suffix

H(body) == Raw("#", body, "")
Code    == Raw("", Text, "")

\* Sample files
PlainFile      == <<Code, Raw("", Blank, ""), Code, Code>>
BannerOnlyFile == <<H(Banner), Code>>
WholeFile      == <<H(Banner), H(Sep), H(TypeLine("WHOLE")), H(Sep), Code, Code>>
AboveFile      == <<H(Banner), H(Sep), H(TypeLine("ABOVE")), H(Section("METHOD")),
                    H(WholeLine("METHOD", "foo")), H(PartialLine("METHOD", "bar", 1, 3)),
                    H(Sep), Code>>
InvertedFile   == <<H(Banner), H(Sep), H(TypeLine("DOWN")), H(Section("STRUCT")),
                    H(PartialLine("STRUCT", "Baz", 3, 1)), H(Sep), Code, Code>>
UntypedFile    == <<H(Banner), H(Sep), H(Sep), H(Section("TRAIT")),
                    H(PartialLine("TRAIT", "Qux", 0, 3)), H(PartialLine("TRAIT", "Qux", 2, 50)),
                    H(Sep), Raw("", Blank, ""), Code>>
UnclosedFile   == <<Raw("/*", Banner, ""), Raw("*", Sep, ""), Raw("*", TypeLine("ABOVE"), ""),
                    Raw("*", Section("IMPORTED"), ""), Raw("*", LibLine("serde"), "*/")>>

BlockFile      == <<Raw("/*", Banner, ""), Raw("*", Sep, ""), Raw("*", TypeLine("WHOLE"), ""),
                    Raw("*", Section("STRUCT"), ""), Raw("*", PartialLine("STRUCT", "Foo", 1, 3), ""),
                    Raw("*", WholeLine("STRUCT", "Bar"), ""), Raw("*", Sep, "*/"),
                    Code, Code, Code>>

ScanContents ==
    {PlainFile, BannerOnlyFile, WholeFile, AboveFile, InvertedFile, UntypedFile, UnclosedFile,
     BlockFile}

Listings(depth, b) ==
    {l \in [dirs : DirLists, files : FileLists] :
        /\ Len(l.files) <= b.files
        /\ Len(l.dirs) <= b.dirs
        /\ depth >= MaxDepth => l.dirs = <<>>}

----------------------------------------------------------------------------
(* scan_directory *)

FileReport(path, language, type_coverage, parsed, total_lines, ai_lines) ==
    [path |-> path, language |-> language, type_coverage |-> type_coverage,
     methods |-> parsed.methods, structs |-> parsed.structs, traits |-> parsed.traits,
     libraries |-> parsed.libraries, total_lines |-> total_lines,
     ai_lines_estimate |-> ai_lines]

NewBucket == [total |-> 0, ai |-> 0, ai_lines |-> 0, total_lines |-> 0]

\* if lang_name not in report.language_breakdown: ... = {...}
WithBucket(breakdown, lang_name) ==
    IF lang_name \in DOMAIN breakdown THEN breakdown
    ELSE breakdown @@ (lang_name :> NewBucket)

\* parsed["type"] or <default>
TypeOr(type, default) == IF type = TYPE_NONE THEN default ELSE type

\* Variant: dirs is left as listed
FilterDirs_KeepAll(dirs, exclude) == dirs

\* dirs[:] = [d for d in dirs if d not in exclude_dirs]
FilterDirs(dirs, exclude) == SelectSeq(dirs, LAMBDA d : d \notin exclude)

\* ProjectReport(scan_directory=..., scan_time=datetime.now().isoformat())
ProjectReport(scan_time) == [EmptyReport EXCEPT !.scan_time = scan_time]

\* the directory listing os.walk yields for top: the one it yielded before, if
\* the tree was already walked
Listed(top) ==
    IF top \in DOMAIN disk.listing THEN {disk.listing[top]}
    ELSE Listings(Len(top), budget)

\* a file on disk: its lines, or a file open() or read() raises on
Readable(lines) == [readable |-> TRUE, lines |-> lines]
Unreadable == [readable |-> FALSE, lines |-> <<>>]

\* what opening the file at path gives: what it gave before, if it was opened
DiskFiles == {Readable(c) : c \in ScanContents} \cup {Unreadable}

Stored(path) ==
    IF path \in DOMAIN disk.content THEN {disk.content[path]} ELSE DiskFiles

Init ==
    /\ exclude_dirs \in ExcludeSets
    /\ pc = "walk"
    /\ pending = << <<>> >>
    /\ root = <<>>
    /\ files = <<>>
    /\ cur = NoFile
    /\ report = ProjectReport(1)
    /\ visited = <<>>
    /\ pruned = {}
    /\ budget = [files |-> MaxFiles, dirs |-> MaxDirs]
    /\ args = <<>>
    /\ ret = None
    /\ disk = EmptyDisk
    /\ first = <<>>

\* os.walk yields the next directory and the loop body prunes its dirs
Walk ==
    /\ pc = "walk"
    /\ pending # <<>>
    /\ \E l \in Listed(Head(pending)) :
          LET top  == Head(pending)
              kept == FilterDirs(l.dirs, exclude_dirs)
          IN  /\ root' = top
              /\ disk' = [disk EXCEPT !.listing = (top :> l) @@ @]
              /\ files' = l.files
              /\ pending' = [i \in 1..Len(kept) |-> Append(top, kept[i])] \o Tail(pending)
              /\ pruned' = pruned \cup
                    {Append(top, l.dirs[i]) : i \in {j \in 1..Len(l.dirs) : l.dirs[j] \in exclude_dirs}}
              /\ budget' = [files |-> budget.files - Len(l.files),
                            dirs |-> budget.dirs - Len(l.dirs)]
    /\ pc' = "file"
    /\ UNCHANGED <<exclude_dirs, cur, report, visited, args, ret, first>>

\* the for-loop over files is exhausted: back to os.walk
NextDirectory ==
    /\ pc = "file"
    /\ files = <<>>
    /\ pc' = "walk"
    /\ UNCHANGED <<exclude_dirs, pending, root, files, cur, report, visited, pruned,
                   budget, args, ret, disk, first>>

\* os.walk is exhausted: return report
Return ==
    /\ pc = "walk"
    /\ pending = <<>>
    /\ pc' = "done"
    /\ UNCHANGED <<exclude_dirs, pending, root, files, cur, report, visited, pruned,
                   budget, args, ret, disk, first>>

\* Variant: the file is counted before its extension is looked up
SkipUnrecognized_Counted ==
    /\ pc = "file"
    /\ files # <<>>
    /\ Lower(Suffix(Head(files))) \notin DOMAIN LANG_MAP
    /\ files' = Tail(files)
    /\ visited' = Append(visited, Append(root, Head(files)))
    /\ report' = [report EXCEPT !.total_files_scanned = @ + 1]
    /\ UNCHANGED <<exclude_dirs, pc, pending, root, cur, pruned, budget, args, ret, disk, first>>

\* if ext not in LANG_MAP: continue
SkipUnrecognized ==
    /\ pc = "file"
    /\ files # <<>>
    /\ Lower(Suffix(Head(files))) \notin DOMAIN LANG_MAP
    /\ files' = Tail(files)
    /\ visited' = Append(visited, Append(root, Head(files)))
    /\ UNCHANGED <<exclude_dirs, pc, pending, root, cur, report, pruned, budget, args, ret, disk, first>>

\* a recognized file: count it and go on to open it
BeginFile ==
    /\ pc = "file"
    /\ files # <<>>
    /\ Lower(Suffix(Head(files))) \in DOMAIN LANG_MAP
    /\ report' = [report EXCEPT !.total_files_scanned = @ + 1]
    /\ cur' = [cur EXCEPT !.path = Append(root, Head(files)),
                          !.ext = Lower(Suffix(Head(files)))]
    /\ files' = Tail(files)
    /\ visited' = Append(visited, Append(root, Head(files)))
    /\ pc' = "read"
    /\ UNCHANGED <<exclude_dirs, pending, root, pruned, budget, args, ret, disk, first>>

\* open() or read() raises: except Exception: continue
ReadFails ==
    /\ pc = "read"
    /\ Unreadable \in Stored(cur.path)
    /\ disk' = [disk EXCEPT !.content = (cur.path :> Unreadable) @@ @]
    /\ pc' = "file"
    /\ UNCHANGED <<exclude_dirs, pending, root, files, cur, report, visited, pruned, budget,
                   args, ret, first>>

\* content = f.read()
ReadFile ==
    /\ pc = "read"
    /\ \E f \in Stored(cur.path) \ {Unreadable} :
          /\ cur' = [cur EXCEPT !.content = f.lines]
          /\ disk' = [disk EXCEPT !.content = (cur.path :> f) @@ @]
    /\ pc' = "extract"
    /\ UNCHANGED <<exclude_dirs, pending, root, files, report, visited, pruned, budget,
                   args, ret, first>>

\* the report after a file without header, its lines left out of the bucket
WithoutHeader_LinesNotCounted(rep, rel_path, lang_info, content) ==
    LET lang_name == lang_info.name
        b == WithBucket(rep.language_breakdown, lang_name)
    IN  [rep EXCEPT
            !.total_files_without_aigcap = @ + 1,
            !.files_without_header = Append(@, rel_path),
            !.language_breakdown =
                [b EXCEPT ![lang_name].total = @ + 1]]

\* the report after a file without header
WithoutHeader(rep, rel_path, lang_info, content) ==
    LET lang_name == lang_info.name
        b == WithBucket(rep.language_breakdown, lang_name)
    IN  [rep EXCEPT
            !.total_files_without_aigcap = @ + 1,
            !.files_without_header = Append(@, rel_path),
            !.language_breakdown =
                [b EXCEPT ![lang_name].total = @ + 1,
                          ![lang_name].total_lines = @ + count_lines(content)]]

\* Variant: the estimator is given the classification that is stored
MakeFileReport_StoredType(rel_path, lang_info, content, header_block) ==
    LET parsed      == parse_header(header_block)
        total_lines == count_lines(content)
        ai_lines    == estimate_ai_lines(total_lines, TypeOr(parsed.type, "UNKNOWN"),
                                         parsed.methods, parsed.structs, parsed.traits)
    IN  FileReport(rel_path, lang_info.name, TypeOr(parsed.type, "UNKNOWN"), parsed,
                   total_lines, ai_lines)

\* the FileReport of a file with header
MakeFileReport(rel_path, lang_info, content, header_block) ==
    LET parsed      == parse_header(header_block)
        total_lines == count_lines(content)
        ai_lines    == estimate_ai_lines(total_lines, TypeOr(parsed.type, "DOWN_50"),
                                         parsed.methods, parsed.structs, parsed.traits)
    IN  FileReport(rel_path, lang_info.name, TypeOr(parsed.type, "UNKNOWN"), parsed,
                   total_lines, ai_lines)

\* Variant: the language's ai_lines is left as it was
WithHeader_AiLinesNotAdded(rep, rel_path, lang_info, content, header_block) ==
    LET file_report == MakeFileReport(rel_path, lang_info, content, header_block)
        lang_name   == lang_info.name
        b == WithBucket(rep.language_breakdown, lang_name)
    IN  [rep EXCEPT
            !.total_files_with_aigcap = @ + 1,
            !.files = Append(@, file_report),
            !.language_breakdown =
                [b EXCEPT ![lang_name].total = @ + 1,
                          ![lang_name].ai = @ + 1,
                          ![lang_name].total_lines = @ + file_report.total_lines]]

\* the report after a file with header
WithHeader(rep, rel_path, lang_info, content, header_block) ==
    LET file_report == MakeFileReport(rel_path, lang_info, content, header_block)
        lang_name   == lang_info.name
        b == WithBucket(rep.language_breakdown, lang_name)
    IN  [rep EXCEPT
            !.total_files_with_aigcap = @ + 1,
            !.files = Append(@, file_report),
            !.language_breakdown =
                [b EXCEPT ![lang_name].total = @ + 1,
                          ![lang_name].ai = @ + 1,
                          ![lang_name].ai_lines = @ + file_report.ai_lines_estimate,
                          ![lang_name].total_lines = @ + file_report.total_lines]]

\* extract_header_block returns None: the file is recorded without header
RecordWithoutHeader ==
    /\ pc = "extract"
    /\ extract_header_block(cur.content, LANG_MAP[cur.ext]) = NoHeader
    /\ report' = WithoutHeader(report, cur.path, LANG_MAP[cur.ext], cur.content)
    /\ pc' = "file"
    /\ UNCHANGED <<exclude_dirs, pending, root, files, cur, visited, pruned, budget, args, ret, disk, first>>

\* the file has a header: parse, estimate, record
RecordWithHeader ==
    /\ pc = "extract"
    /\ LET header_block == extract_header_block(cur.content, LANG_MAP[cur.ext]) IN
          /\ header_block # NoHeader
          /\ report' = WithHeader(report, cur.path, LANG_MAP[cur.ext], cur.content,
                                  header_block[1])
    /\ pc' = "file"
    /\ UNCHANGED <<exclude_dirs, pending, root, files, cur, visited, pruned, budget, args, ret, disk, first>>

Next ==
    \/ Walk
    \/ NextDirectory
    \/ Return
    \/ SkipUnrecognized
    \/ BeginFile
    \/ ReadFails
    \/ ReadFile
    \/ RecordWithoutHeader
    \/ RecordWithHeader

Spec == Init /\ [][Next]_vars

\* scan_directory is called again on the same tree with the same exclude_dirs:
\* a new ProjectReport, a new walk, and a clock that has not gone back
TwiceBudget == [files |-> MaxFiles, dirs |-> MaxDirs - 1]

InitTwice ==
    /\ exclude_dirs \in ExcludeSets
    /\ pc = "walk"
    /\ pending = << <<>> >>
    /\ root = <<>>
    /\ files = <<>>
    /\ cur = NoFile
    /\ report = ProjectReport(1)
    /\ visited = <<>>
    /\ pruned = {}
    /\ budget = TwiceBudget
    /\ args = <<>>
    /\ ret = None
    /\ disk = EmptyDisk
    /\ first = <<>>

\* Variant: the second call goes on filling the report of the first
Rescan_ReportKept ==
    /\ pc = "done"
    /\ first = <<>>
    /\ first' = <<report>>
    /\ \E t \in {report.scan_time, report.scan_time + 1} :
          report' = [report EXCEPT !.scan_time = t]
    /\ pc' = "walk"
    /\ pending' = << <<>> >>
    /\ root' = <<>>
    /\ files' = <<>>
    /\ cur' = NoFile
    /\ visited' = <<>>
    /\ pruned' = {}
    /\ budget' = TwiceBudget
    /\ UNCHANGED <<exclude_dirs, args, ret, disk>>

Rescan ==
    /\ pc = "done"
    /\ first = <<>>
    /\ first' = <<report>>
    /\ \E t \in {report.scan_time, report.scan_time + 1} :
          report' = ProjectReport(t)
    /\ pc' = "walk"
    /\ pending' = << <<>> >>
    /\ root' = <<>>
    /\ files' = <<>>
    /\ cur' = NoFile
    /\ visited' = <<>>
    /\ pruned' = {}
    /\ budget' = TwiceBudget
    /\ UNCHANGED <<exclude_dirs, args, ret, disk>>

NextTwice ==
    \/ Next
    \/ Rescan

SpecTwice == InitTwice /\ [][NextTwice]_vars

----------------------------------------------------------------------------
(* Claims about scan_directory *)

\* the loop is between two files (or has returned)
BetweenFiles == pc \in {"walk", "file", "done"}

Entries(f) == f.methods \o f.structs \o f.traits

\* C1: every FileReport in report.files has 0 <= ai_lines_estimate <= total_lines.
C1_EstimateWithinFile ==
    \A i \in 1..Len(report.files) :
        /\ 0 <= report.files[i].ai_lines_estimate
        /\ report.files[i].ai_lines_estimate <= report.files[i].total_lines

C1_Witness ==
    /\ pc = "done"
    /\ \E i \in 1..Len(report.files) :
          \E k \in 1..Len(Entries(report.files[i])) :
              Entries(report.files[i])[k].start_line > Entries(report.files[i])[k].end_line
    /\ \E i \in 1..Len(report.files) :
          \E k \in 1..Len(Entries(report.files[i])) :
              Entries(report.files[i])[k].end_line > report.files[i].total_lines

\* the language a recorded path belongs to
LangOfPath(path) == LANG_MAP[Lower(Suffix(path[Len(path)]))].name

RECURSIVE SumOfTotals(_, _)
SumOfTotals(breakdown, langs) ==
    IF langs = {} THEN 0
    ELSE LET l == CHOOSE x \in langs : TRUE
         IN  breakdown[l].total + SumOfTotals(breakdown, langs \ {l})

\* C2: after every file, total_files_scanned = total_files_with_aigcap +
\* total_files_without_aigcap, the languages' 'total' add up to
\* total_files_scanned, and each language's 'total' is its 'ai' plus the number
\* of its files recorded without header.
C2_CountsBalance ==
    BetweenFiles =>
        /\ report.total_files_scanned =
              report.total_files_with_aigcap + report.total_files_without_aigcap
        /\ SumOfTotals(report.language_breakdown, DOMAIN report.language_breakdown) =
              report.total_files_scanned
        /\ \A l \in DOMAIN report.language_breakdown :
              report.language_breakdown[l].total =
                  report.language_breakdown[l].ai +
                  Cardinality({i \in 1..Len(report.files_without_header) :
                                  LangOfPath(report.files_without_header[i]) = l})

\* the header of the file last read, and whether it holds a TYPE phrase
CurHeader == extract_header_block(cur.content, LANG_MAP[cur.ext])
HasTypeLine(header) == \E i \in 1..Len(header) : header[i].body.kind = "type"

\* C8: a file whose header holds no TYPE phrase is stored with type_coverage
\* "UNKNOWN", and the estimate stored for an "UNKNOWN" file is the one
\* estimate_ai_lines gives for "DOWN_50" with the same total_lines and entries.
C8_UnknownEstimatedAsDown50 ==
    /\ \A i \in 1..Len(report.files) :
          LET f == report.files[i] IN
          f.type_coverage = "UNKNOWN" =>
              f.ai_lines_estimate =
                  estimate_ai_lines(f.total_lines, "DOWN_50", f.methods, f.structs, f.traits)
    /\ \A i \in 1..Len(report.files) :
          (BetweenFiles /\ report.files[i].path = cur.path) =>
              (report.files[i].type_coverage = "UNKNOWN" <=> ~HasTypeLine(CurHeader[1]))

C8_Witness ==
    /\ pc = "file"
    /\ cur.content = UntypedFile
    /\ \E i \in 1..Len(report.files) :
          /\ report.files[i].path = cur.path
          /\ report.files[i].type_coverage = "UNKNOWN"
          /\ report.files[i].traits # <<>>
          /\ report.files[i].ai_lines_estimate > 0

\* a path that lies beneath a directory named in exclude_dirs
BeneathExcluded(path) == \E i \in 1..(Len(path) - 1) : path[i] \in exclude_dirs

Recognized(path) == Lower(Suffix(path[Len(path)])) \in DOMAIN LANG_MAP

\* C9: no file beneath an excluded directory is reported, listed without header
\* or counted, and no excluded directory is ever walked.
C9_ExcludedNeverScanned ==
    /\ \A i \in 1..Len(report.files) : ~BeneathExcluded(report.files[i].path)
    /\ \A i \in 1..Len(report.files_without_header) :
          ~BeneathExcluded(report.files_without_header[i])
    /\ \A i \in 1..Len(visited) : ~BeneathExcluded(visited[i])
    /\ report.total_files_scanned =
          Cardinality({i \in 1..Len(visited) :
                          Recognized(visited[i]) /\ ~BeneathExcluded(visited[i])})
    /\ report.total_files_with_aigcap + report.total_files_without_aigcap
          <= report.total_files_scanned
    /\ SumOfTotals(report.language_breakdown, DOMAIN report.language_breakdown)
          <= report.total_files_scanned
    /\ \A i \in 1..Len(root) : root[i] \notin exclude_dirs
    /\ \A k \in 1..Len(pending) : \A i \in 1..Len(pending[k]) : pending[k][i] \notin exclude_dirs

C9_Witness ==
    /\ pc = "done"
    /\ \E d \in pruned : Len(d) = 2
    /\ Len(report.files) >= 1

\* C10: the loop iteration of a file whose lower-cased extension is not in
\* LANG_MAP leaves the whole report unchanged.
C10_UnrecognizedLeavesReport ==
    [][(pc = "file" /\ files # <<>> /\ Suffix(Head(files)) \notin {".PY", ".rs"})
          => report' = report]_vars

C10_Witness ==
    /\ pc = "file"
    /\ Len(visited) = 2
    /\ visited[2] = <<"notes.txt">>
    /\ report.total_files_scanned = 1
    /\ Len(report.files) = 1
    /\ DOMAIN report.language_breakdown = {"Python"}

\* the bucket of a language before its first file is all zeros
BucketOf(breakdown, lang_name) ==
    IF lang_name \in DOMAIN breakdown THEN breakdown[lang_name]
    ELSE [total |-> 0, ai |-> 0, ai_lines |-> 0, total_lines |-> 0]

\* the number of lines of the file last read that are not blank
NonBlankLines == Cardinality({i \in 1..Len(cur.content) : NonEmptyRaw(cur.content[i])})

Recorded(path) ==
    \/ \E i \in 1..Len(report.files) : report.files[i].path = path
    \/ \E i \in 1..Len(report.files_without_header) : report.files_without_header[i] = path

\* C12: a recognized file whose read fails contributes nothing, like an
\* unrecognized file: between two files total_files_scanned counts only the
\* recognized files that were read and recorded, the other counters and lists
\* hold nothing of the failed file, and the walk goes on to the end: at the
\* return every file that was listed has been visited.
C12_ReadFailureContributesNothing ==
    /\ BetweenFiles =>
          /\ report.total_files_scanned =
                Cardinality({i \in 1..Len(visited) :
                                Recognized(visited[i]) /\ Recorded(visited[i])})
          /\ report.total_files_with_aigcap + report.total_files_without_aigcap =
                Cardinality({i \in 1..Len(visited) : Recorded(visited[i])})
          /\ SumOfTotals(report.language_breakdown, DOMAIN report.language_breakdown) =
                Cardinality({i \in 1..Len(visited) : Recorded(visited[i])})
    /\ pc = "done" => Len(visited) = MaxFiles - budget.files

\* C20: no counter includes a file whose outcome is still being computed: while
\* a file is being read or its header extracted, total_files_scanned counts
\* only the recognized files visited before it, and the other counters only
\* files that are recorded.
C20_CountersOnlyAfterOutcome ==
    pc \in {"read", "extract"} =>
        /\ report.total_files_scanned =
              Cardinality({i \in 1..(Len(visited) - 1) : Recognized(visited[i])})
        /\ report.total_files_with_aigcap = Len(report.files)
        /\ report.total_files_without_aigcap = Len(report.files_without_header)
        /\ ~Recorded(cur.path)

----------------------------------------------------------------------------
(* The per-file body of the scan (extract, parse, count, estimate) run on a  *)
(* file and on the same file with its REVIEWED-BY-HUMAN lines changed.       *)

ReviewedLines ==
    {H(Banner), H(Sep), H(TypeLine("ABOVE")), H(Section("IMPORTED")),
     H(ReviewedLine("YES")), H(ReviewedItem("NO")), Raw("--", ReviewedLine("NO"), "")}

IsReviewed(line) == line.body.kind \in {"reviewed", "reviewed_item"}

ReviewedArgs ==
    {a \in [content : UNION {[1..n -> ReviewedLines] : n \in 1..MaxLen},
            change : {"value", "presence"}] :
        \E i \in 1..Len(a.content) : IsReviewed(a.content[i])}

\* the other tree: every marker has the other value, or every marker line is
\* an empty comment line
ChangedLine(line, change) ==
    IF ~IsReviewed(line) THEN line
    ELSE IF change = "value"
    THEN [line EXCEPT !.body.word = IF @ = "YES" THEN "NO" ELSE "YES"]
    ELSE [line EXCEPT !.body = Blank]

Changed(content, change) == [i \in 1..Len(content) |-> ChangedLine(content[i], change)]

\* what the scan records for one file: the FileReport, or nothing
FileOutcome(content, lang_info) ==
    LET header_block == extract_header_block(content, lang_info) IN
    IF header_block = NoHeader THEN <<>>
    ELSE <<MakeFileReport(<<"main.PY">>, lang_info, content, header_block[1])>>

InitReviewed ==
    /\ ScanIdle
    /\ pc = "rev_call"
    /\ args \in ReviewedArgs
    /\ ret = <<>>

ScanBoth ==
    /\ pc = "rev_call"
    /\ pc' = "rev_done"
    /\ ret' = <<FileOutcome(args.content, LANG_MAP[".py"]),
                FileOutcome(Changed(args.content, args.change), LANG_MAP[".py"])>>
    /\ UNCHANGED <<args, scanRest>>

NextReviewed == ScanBoth

SpecReviewed == InitReviewed /\ [][NextReviewed]_vars

\* C15: two files that differ only in the value or the presence of their
\* REVIEWED-BY-HUMAN lines, and have the same number of non-blank lines, get the
\* same classification, entries, libraries and ai_lines_estimate.
C15_MarkerDoesNotChangeOutput ==
    (pc = "rev_done"
        /\ count_lines(args.content) = count_lines(Changed(args.content, args.change)))
    => ret[1] = ret[2]

----------------------------------------------------------------------------
(* Round trip: a header written in the wire format from a classification    *)
(* and a list of entries, then extract_header_block and parse_header.        *)

KindWords == {"METHOD", "STRUCT", "TRAIT"}

\* the entries a header is written from: kind word and CoverageEntry
Annotated(kindword, entry) == [kindword |-> kindword, entry |-> entry]

RoundTripEntries ==
    {Annotated(k, e) : k \in KindWords,
                       e \in {Entry("foo", "WHOLE", None, None), Entry("bar", "WHOLE", None, None),
                              Entry("foo", "PARTIAL", 1, 12), Entry("bar", "PARTIAL", 0, MaxBound),
                              Entry("foo", "PARTIAL", 12, 1)}}

RoundTripArgs ==
    [type_coverage : {"WHOLE", "ABOVE_50", "DOWN_50"},
     entries : SeqsUpTo(RoundTripEntries, MaxEntries),
     lang_info : {LANG_MAP[".py"], LANG_MAP[".rs"], LANG_MAP[".sql"], LANG_MAP[".html"]}]

\* the entries of one kind, in the order given
RECURSIVE OfKind(_, _)
OfKind(entries, kindword) ==
    IF entries = <<>> THEN <<>>
    ELSE (IF Head(entries).kindword = kindword THEN <<Head(entries).entry>> ELSE <<>>)
         \o OfKind(Tail(entries), kindword)

\* "- WHOLE CODE IN THE <kind> <name>" / "- <start>~<end> LINE CODE IN THE <kind> <name>"
EntryBody(kindword, entry) ==
    IF entry.coverage = "WHOLE" THEN WholeLine(kindword, entry.name)
    ELSE PartialLine(kindword, entry.name, entry.start_line, entry.end_line)

\* a section header followed by its entry lines; nothing for a kind without entries
SectionBodies(entries, kindword) ==
    LET mine == OfKind(entries, kindword) IN
    IF mine = <<>> THEN <<>>
    ELSE <<Section(kindword)>> \o [i \in 1..Len(mine) |-> EntryBody(kindword, mine[i])]

TypeWord(type_coverage) ==
    IF type_coverage = "WHOLE" THEN "WHOLE"
    ELSE IF type_coverage = "ABOVE_50" THEN "ABOVE"
    ELSE "DOWN"

HeaderBodies(type_coverage, entries) ==
    <<Banner, Sep, TypeLine(TypeWord(type_coverage))>>
    \o SectionBodies(entries, "METHOD") \o SectionBodies(entries, "STRUCT")
    \o SectionBodies(entries, "TRAIT") \o <<Sep>>

\* line i of n in the comment dialect of the language
Decorated(body, i, n, lang_info) ==
    IF lang_info.family = "hash" THEN Raw("#", body, "")
    ELSE IF lang_info.family = "dash" THEN Raw("--", body, "")
    ELSE IF lang_info.family = "block"
    THEN Raw(IF i = 1 THEN "/*" ELSE "*", body, IF i = n THEN "*/" ELSE "")
    ELSE Raw(IF i = 1 THEN "<!--" ELSE "", body, IF i = n THEN "-->" ELSE "")

\* the file: the header in the file's dialect, then a line of code
Synthesized(type_coverage, entries, lang_info) ==
    LET bodies == HeaderBodies(type_coverage, entries) IN
    [i \in 1..Len(bodies) |-> Decorated(bodies[i], i, Len(bodies), lang_info)] \o <<Code>>

InitRoundTrip ==
    /\ ScanIdle
    /\ pc = "rt_call"
    /\ args \in RoundTripArgs
    /\ ret = <<>>

\* header = extract_header_block(content, lang_info); parsed = parse_header(header)
ExtractAndParse ==
    /\ pc = "rt_call"
    /\ pc' = "rt_done"
    /\ LET content == Synthesized(args.type_coverage, args.entries, args.lang_info)
           header_block == extract_header_block(content, args.lang_info)
       IN  ret' = IF header_block = NoHeader THEN <<>>
                  ELSE <<parse_header(header_block[1])>>
    /\ UNCHANGED <<args, scanRest>>

NextRoundTrip == ExtractAndParse

SpecRoundTrip == InitRoundTrip /\ [][NextRoundTrip]_vars

\* C13: a header written in the wire format from a classification and a list
\* of entries is extracted, and parsing it gives back the classification and,
\* kind by kind and in the order written, the entries with their names,
\* coverage and bounds.
C13_RoundTrip ==
    pc = "rt_done" =>
        /\ ret # <<>>
        /\ ret[1].type = args.type_coverage
        /\ ret[1].methods = OfKind(args.entries, "METHOD")
        /\ ret[1].structs = OfKind(args.entries, "STRUCT")
        /\ ret[1].traits = OfKind(args.entries, "TRAIT")
        /\ ret[1].libraries = <<>>

C13_Witness ==
    /\ pc = "rt_done"
    /\ args.lang_info.family = "block"
    /\ args.type_coverage = "ABOVE_50"
    /\ args.entries = <<Annotated("TRAIT", Entry("foo", "PARTIAL", 1, 12)),
                        Annotated("METHOD", Entry("bar", "WHOLE", None, None))>>
    /\ ret = <<[type |-> "ABOVE_50",
                methods |-> <<Entry("bar", "WHOLE", None, None)>>,
                structs |-> <<>>,
                traits |-> <<Entry("foo", "PARTIAL", 1, 12)>>,
                libraries |-> <<>>]>>

----------------------------------------------------------------------------
(* The gating hook (dot-claude/hooks/check_aigcap.py).  A payload is what    *)
(* json.load reads from stdin; the disk holds the edited file.               *)

CODE_EXTENSIONS ==
    {".rs", ".c", ".h", ".cpp", ".hpp", ".java", ".js", ".jsx", ".ts", ".tsx",
     ".go", ".swift", ".kt", ".scala", ".cs", ".py", ".rb", ".sh", ".bash",
     ".css", ".scss", ".sql", ".lua", ".hs", ".html", ".xml", ".svg", ".vue"}

SKIP_PATTERNS ==
    {"node_modules", ".git", "__pycache__", "target/debug", "target/release", "dist/",
     "build/", "package.json", "package-lock.json", "Cargo.lock", "yarn.lock",
     "Cargo.toml", "pyproject.toml", "go.mod", "go.sum", "tsconfig.json", ".eslintrc",
     ".prettierrc", "CLAUDE.md", "AIGCAP_PROTOCOL.md", "README.md", "CHANGELOG.md",
     "LICENSE", ".env", ".gitignore", ".dockerignore", "Makefile", "Dockerfile",
     "docker-compose", "__init__.py"}

HEAD_LINES == 50

\* A path is the sequence of its segments; <<>> is the empty string.
HookPaths ==
    {<<>>, <<"src", "main.PY">>, <<"lib.rs">>, <<"notes.txt">>, <<"node_modules", "lib.rs">>,
     <<"src", "__init__.py">>, <<"conf.yaml">>, <<"rebuild", "main.PY">>}

\* pattern in file_path, for the names the paths are made of: a pattern that
\* ends in "/" occurs where a directory name ends with it
PatternIn(pattern, file_path) ==
    \/ \E i \in 1..Len(file_path) : pattern = file_path[i]
    \/ pattern = "build/" /\ \E i \in 1..(Len(file_path) - 1) : file_path[i] = "rebuild"

should_check(file_path) ==
    IF file_path = <<>> THEN FALSE
    ELSE IF Lower(Suffix(file_path[Len(file_path)])) \notin CODE_EXTENSIONS THEN FALSE
    ELSE ~ \E pattern \in SKIP_PATTERNS :
             PatternIn(pattern, file_path) \/ pattern = file_path[Len(file_path)]

\* REVIEWED_YES.search(text) / REVIEWED_NO.search(text)
ReviewedYes(text) ==
    \E i \in 1..Len(text) : IsReviewed(text[i]) /\ text[i].body.word = "YES"
ReviewedNo(text) ==
    \E i \in 1..Len(text) : IsReviewed(text[i]) /\ text[i].body.word = "NO"

HookLines == {H(Banner), H(ReviewedLine("YES")), H(ReviewedLine("NO")), Code}

HookTexts == SeqsUpTo(HookLines, MaxHookLines)

\* a file of `pad` lines of code followed by a tail
Padded(pad, tail) == [i \in 1..pad |-> Code] \o tail

NoDisk == [isfile |-> FALSE, readable |-> FALSE, lines |-> <<>>]

\* the payloads: not JSON; a Write; an Edit or MultiEdit of a file on disk;
\* another tool.  A key that is missing reads as the empty value.
HookArgs ==
    {[json |-> FALSE, tool_name |-> "", file_path |-> <<>>, path |-> <<>>,
      content |-> <<>>, disk |-> NoDisk]}
    \cup
    {[json |-> TRUE, tool_name |-> "Write", file_path |-> f, path |-> q,
      content |-> c, disk |-> NoDisk] :
        f \in HookPaths, q \in {<<>>, <<"src", "main.PY">>}, c \in HookTexts}
    \cup
    {[json |-> TRUE, tool_name |-> t, file_path |-> f, path |-> <<>>,
      content |-> <<>>, disk |-> d] :
        t \in {"Edit", "MultiEdit"}, f \in HookPaths,
        d \in {NoDisk, [isfile |-> TRUE, readable |-> FALSE, lines |-> <<>>]}
              \cup {[isfile |-> TRUE, readable |-> TRUE, lines |-> Padded(pad, c)] :
                        pad \in {0, HEAD_LINES - 1, HEAD_LINES}, c \in HookTexts}}
    \cup
    {[json |-> TRUE, tool_name |-> t, file_path |-> f, path |-> <<>>,
      content |-> <<>>, disk |-> NoDisk] : t \in {"Read", ""}, f \in HookPaths}

Exit(status, out) == [status |-> status, out |-> out]

\* the first 50 lines of the file
Head50(lines) == SubSeq(lines, 1, Min(HEAD_LINES, Len(lines)))

\* PreToolUse on Write
CheckWrite(content) ==
    IF ~BannerInContent(content) THEN Exit(2, "BLOCKED: missing header")
    ELSE IF ReviewedYes(content) THEN Exit(2, "BLOCKED: has YES")
    ELSE IF ~ReviewedNo(content) THEN Exit(2, "BLOCKED: missing NO")
    ELSE Exit(0, "")

\* PostToolUse on Edit / MultiEdit
CheckEdit(file) ==
    IF ~file.isfile THEN Exit(0, "")
    ELSE IF ~file.readable THEN Exit(0, "")
    ELSE LET head == Head50(file.lines) IN
         IF ~BannerInContent(head) THEN Exit(0, "WARNING: no header")
         ELSE IF ReviewedYes(head) /\ ~ReviewedNo(head) THEN Exit(0, "WARNING: still has YES")
         ELSE IF ~ReviewedNo(head) /\ ~ReviewedYes(head)
         THEN Exit(0, "WARNING: missing field")
         ELSE Exit(0, "")

\* tool_input.get("file_path") or tool_input.get("path", "")
FilePath(data) == IF data.file_path # <<>> THEN data.file_path ELSE data.path

\* Variant: the Write branch lets YES pass when NO is there too
main_WriteYesWithNo(data) ==
    IF ~data.json THEN Exit(0, "")
    ELSE IF ~should_check(FilePath(data)) THEN Exit(0, "")
    ELSE IF data.tool_name = "Write"
    THEN (IF ~BannerInContent(data.content) THEN Exit(2, "BLOCKED: missing header")
          ELSE IF ReviewedYes(data.content) /\ ~ReviewedNo(data.content)
          THEN Exit(2, "BLOCKED: has YES")
          ELSE IF ~ReviewedNo(data.content) THEN Exit(2, "BLOCKED: missing NO")
          ELSE Exit(0, ""))
    ELSE IF data.tool_name \in {"Edit", "MultiEdit"} THEN CheckEdit(data.disk)
    ELSE Exit(0, "")

main(data) ==
    IF ~data.json THEN Exit(0, "")
    ELSE IF ~should_check(FilePath(data)) THEN Exit(0, "")
    ELSE IF data.tool_name = "Write" THEN CheckWrite(data.content)
    ELSE IF data.tool_name \in {"Edit", "MultiEdit"} THEN CheckEdit(data.disk)
    ELSE Exit(0, "")

InitHook ==
    /\ ScanIdle
    /\ pc = "hook_call"
    /\ args \in HookArgs
    /\ ret = Exit(0, "")

RunHook ==
    /\ pc = "hook_call"
    /\ pc' = "hook_done"
    /\ ret' = main(args)
    /\ UNCHANGED <<args, scanRest>>

NextHook == RunHook

SpecHook == InitHook /\ [][NextHook]_vars

----------------------------------------------------------------------------
(* Claims about the hook *)

\* the path passes should_check: a code extension, and no skip pattern in it
Gated == args.json /\ should_check(FilePath(args))

C17_EditWarnsWheneverYes ==
    (pc = "hook_done" /\ args.json /\ args.tool_name \in {"Edit", "MultiEdit"}) =>
        /\ ret.status = 0
        /\ (/\ Gated
            /\ args.disk.isfile /\ args.disk.readable
            /\ \E i \in 1..Min(HEAD_LINES, Len(args.disk.lines)) :
                  HasBanner(args.disk.lines[i])
            /\ \E i \in 1..Min(HEAD_LINES, Len(args.disk.lines)) :
                  args.disk.lines[i] = H(ReviewedLine("YES")))
           => ret.out = "WARNING: still has YES"

----------------------------------------------------------------------------
(* Claims about two calls of scan_directory *)

\* C14: two calls of scan_directory on the same unmodified tree, with the same
\* exclusion set and the same discovery order, return reports that are equal
\* in everything but scan_time.
C14_SecondScanSameReport ==
    (pc = "done" /\ first # <<>>) =>
        [report EXCEPT !.scan_time = first[1].scan_time] = first[1]

C14_Witness ==
    /\ pc = "done"
    /\ first # <<>>
    /\ first[1].scan_time # report.scan_time
    /\ Len(report.files) = 1
    /\ report.files[1].ai_lines_estimate > 0
    /\ DOMAIN report.language_breakdown # {}

----------------------------------------------------------------------------
(* Calls of parse_header on bounded headers *)

\* the lines of a header: section headers, list items of each kind, a list item
\* of no kind, a library item, prose, and an item or a section word behind a
\* decoration the comment family did not remove
ParseLines ==
    {Cleaned("", b, "") :
        b \in {Section("METHOD"), Section("OBJECT"), Section("TRAIT"), Section("IMPORTED"),
               WholeLine("METHOD", "f"), PartialLine("STRUCT", "S", 1, 12),
               WholeLine("TRAIT", "T"), DashLine, LibLine("lib"), Text}}
    \cup {Cleaned("//", WholeLine("METHOD", "f"), ""), Cleaned("//", Section("TRAIT"), "")}

ParseArgs(max) == [header_text : SeqsUpTo(ParseLines, max)]

\* result before the call returns
NoResult ==
    [type |-> TYPE_NONE, methods |-> <<>>, structs |-> <<>>, traits |-> <<>>,
     libraries |-> <<>>]

InitParse ==
    /\ ScanIdle
    /\ pc = "parse_call"
    /\ args \in ParseArgs(MaxHeader)
    /\ ret = NoResult

Parse ==
    /\ pc = "parse_call"
    /\ pc' = "parse_done"
    /\ ret' = parse_header(args.header_text)
    /\ UNCHANGED <<args, scanRest>>

NextParse == Parse

SpecParse == InitParse /\ [][NextParse]_vars

----------------------------------------------------------------------------
(* Claims about parse_header *)

\* the section named by the last section header among the first k lines
RECURSIVE LastSection(_, _)
LastSection(header, k) ==
    IF k = 0 THEN "none"
    ELSE IF header[k].lead = "" /\ header[k].body.kind = "section"
    THEN (IF header[k].body.word \in {"METHOD", "FUNCTION"} THEN "methods"
          ELSE IF header[k].body.word \in {"STRUCT", "OBJECT"} THEN "structs"
          ELSE IF header[k].body.word \in {"TRAIT", "INTERFACE"} THEN "traits"
          ELSE "libraries")
    ELSE LastSection(header, k - 1)

\* the kind-word of a section's Whole and Partial patterns
KindWordOf(section) ==
    IF section = "methods" THEN "METHOD"
    ELSE IF section = "structs" THEN "STRUCT"
    ELSE IF section = "traits" THEN "TRAIT"
    ELSE "none"

\* line k begins with "-"
IsDashLine(header, k) ==
    \/ header[k].lead = "--"
    \/ header[k].lead = "" /\ header[k].body.kind \in {"whole", "partial", "lib", "dash",
                                                        "reviewed_item"}

\* line k is a "-" line under a section header whose Whole or Partial pattern it matches
IsEntryLine(header, k) ==
    /\ IsDashLine(header, k)
    /\ header[k].body.kind \in {"whole", "partial"}
    /\ header[k].body.word = KindWordOf(LastSection(header, k - 1))

\* the entry such a line stands for
EntryAt(header, k) ==
    IF header[k].body.kind = "whole"
    THEN Entry(header[k].body.name, "WHOLE", None, None)
    ELSE Entry(header[k].body.name, "PARTIAL",
               IntOf(header[k].body.start), IntOf(header[k].body.end))

\* the entries of the first k lines that belong to one section, top to bottom
RECURSIVE SectionEntries(_, _, _)
SectionEntries(header, k, section) ==
    IF k = 0 THEN <<>>
    ELSE SectionEntries(header, k - 1, section)
         \o (IF IsEntryLine(header, k) /\ LastSection(header, k - 1) = section
             THEN <<EntryAt(header, k)>> ELSE <<>>)

\* the lines that are neither a section header nor an entry line
Ignored(header) ==
    {k \in 1..Len(header) :
        /\ ~(header[k].lead = "" /\ header[k].body.kind = "section")
        /\ ~IsEntryLine(header, k)}

\* the header without its line k
Without(header, k) == SubSeq(header, 1, k - 1) \o SubSeq(header, k + 1, Len(header))

CoverageLists(parsed) == <<parsed.methods, parsed.structs, parsed.traits>>

\* C21: the header is processed top to bottom with a current-section selector.
\* A "-" line yields a coverage entry only in the list of the most recently seen
\* section header, and only if it matches that section's Whole or Partial pattern
\* (kind-word METHOD, STRUCT or TRAIT respectively).  Lines that do not begin with
\* "-", "-" lines before any section header and "-" lines matching neither
\* pattern yield no entry, change no section, and the entries of the other lines
\* are the same with or without them.
C21_EntriesFollowCurrentSection ==
    pc = "parse_done" =>
        LET header == args.header_text IN
        /\ ret.methods = SectionEntries(header, Len(header), "methods")
        /\ ret.structs = SectionEntries(header, Len(header), "structs")
        /\ ret.traits = SectionEntries(header, Len(header), "traits")
        /\ \A k \in Ignored(header) :
              CoverageLists(parse_header(Without(header, k))) = CoverageLists(ret)

C21_Witness ==
    /\ pc = "parse_done"
    /\ args.header_text = <<Cleaned("", WholeLine("METHOD", "f"), ""),
                            Cleaned("", Section("OBJECT"), ""),
                            Cleaned("", PartialLine("STRUCT", "S", 1, 12), "")>>
    /\ ret.methods = <<>>
    /\ ret.structs = <<Entry("S", "PARTIAL", 1, 12)>>
    /\ ret.traits = <<>>

----------------------------------------------------------------------------
(* Claims about the aggregates of scan_directory *)

\* the FileReports of one language
OfLanguage(lang_name) ==
    {i \in 1..Len(report.files) : report.files[i].language = lang_name}

\* the sum of ai_lines_estimate over the FileReports at the indices S
RECURSIVE SumOfEstimates(_)
SumOfEstimates(S) ==
    IF S = {} THEN 0
    ELSE LET i == CHOOSE x \in S : TRUE
         IN  report.files[i].ai_lines_estimate + SumOfEstimates(S \ {i})

\* C22: after any sequence of files, the aggregates agree with the lists:
\* len(files) = total_files_with_aigcap, len(files_without_header) =
\* total_files_without_aigcap, and for every language 'ai' is the number of its
\* FileReports, 'ai_lines' is the sum of their ai_lines_estimate, and
\* 'ai_lines' <= 'total_lines'.
C22_AggregatesAgreeWithLists ==
    BetweenFiles =>
        /\ Len(report.files) = report.total_files_with_aigcap
        /\ Len(report.files_without_header) = report.total_files_without_aigcap
        /\ \A i \in 1..Len(report.files) :
              report.files[i].language \in DOMAIN report.language_breakdown
        /\ \A l \in DOMAIN report.language_breakdown :
              /\ report.language_breakdown[l].ai = Cardinality(OfLanguage(l))
              /\ report.language_breakdown[l].ai_lines = SumOfEstimates(OfLanguage(l))
              /\ report.language_breakdown[l].ai_lines <=
                    report.language_breakdown[l].total_lines

C22_Witness ==
    /\ pc = "done"
    /\ Len(report.files) = 1
    /\ Len(report.files_without_header) = 1
    /\ \E l \in DOMAIN report.language_breakdown :
          /\ report.language_breakdown[l].total = 2
          /\ report.language_breakdown[l].ai = 1
          /\ report.language_breakdown[l].ai_lines > 0
          /\ report.language_breakdown[l].ai_lines < report.language_breakdown[l].total_lines

====
